---------------------------- MODULE Spec2Model ----------------------------
(***************************************************************************)
(* Model of app.py, the Telco executive dashboard: the simulated base      *)
(* series, the what-if tab (tab1) and the scenario comparison tab (tab2).  *)
(*                                                                         *)
(* Numbers.  Python floats are modelled as exact decimals:                 *)
(*   - a raw churn rate is an integer number of 0.0001 percent,            *)
(*   - a raw ARPU is an integer number of 0.0001 dollars,                  *)
(*   - a column rounded to 2 decimals holds hundredths (of a percent, or   *)
(*     cents),                                                             *)
(*   - the unrounded customer counts (customers, customers_adj) are Dec    *)
(*     values: an arbitrary-precision magnitude in base 1000, little       *)
(*     endian, with a count of fractional base-1000 digits, so the         *)
(*     12-period recurrence is computed without loss.                      *)
(***************************************************************************)
EXTENDS Integers, Sequences, FiniteSets, TLC

VARIABLES
    arpu,             \* line 13: raw base ARPU per month, 0.0001 $
    churn_rate,       \* line 14: raw base churn per month, 0.0001 %
    customers,        \* lines 17-20: unrounded base customers (Dec)
    base_data,        \* lines 24-30: the base DataFrame (column -> sequence)
    churn_adjust,     \* line 48: slider, hundredths of a percent point
    arpu_adjust_pct,  \* line 50: slider, tenths of a percent
    arpu_scenario,    \* line 101: selectbox option
    data,             \* lines 52-64: tab1's DataFrame
    customers_adj,    \* the customers_adj list last computed (tab1 or tab2)
    scenario_frames,  \* line 114: list of per-scenario frames
    combined,         \* line 141: the concatenated frame (sequence of rows)
    pc                \* position of the script run

vars == << arpu, churn_rate, customers, base_data, churn_adjust,
           arpu_adjust_pct, arpu_scenario, data, customers_adj,
           scenario_frames, combined, pc >>

-----------------------------------------------------------------------------
(* Program constants *)

Periods == 12

customer_base == 500000

\* np.random.uniform(4.5, 6.5, 12): [4.5, 6.5) in 0.0001 $
ArpuLow == 45000
ArpuHigh == 65000

\* np.random.uniform(2, 5, 12): [2, 5) in 0.0001 %
ChurnLow == 20000
ChurnHigh == 50000

\* st.slider(..., -2.0, 2.0, 0.0, 0.1) in hundredths of a percent point
ChurnAdjustMin == -200
ChurnAdjustMax == 200
ChurnAdjustStep == 10

\* st.slider(..., -20.0, 20.0, 0.0, 0.5) in tenths of a percent
ArpuAdjustMin == -200
ArpuAdjustMax == 200
ArpuAdjustStep == 5

\* .clip(lower=0) of tab1 (line 56) and of tab2 (line 121)
ClipLowerTab1 == 0
ClipLowerTab2 == 0

-----------------------------------------------------------------------------
(* Exact arithmetic *)

\* digit base of a magnitude
B == 10 * 10 * 10

Max(a, b) == IF a >= b THEN a ELSE b

\* round half to even of n / d (numpy's rint), d > 0
RoundHalfEvenDiv(n, d) ==
    LET q == n \div d
        r == n % d
    IN  IF 2 * r > d THEN q + 1
        ELSE IF 2 * r < d THEN q
        ELSE IF q % 2 = 0 THEN q ELSE q + 1

RECURSIVE BigFromNat(_)
BigFromNat(n) == IF n = 0 THEN << >> ELSE << n % B >> \o BigFromNat(n \div B)

RECURSIVE BigToNat(_)
BigToNat(a) == IF a = << >> THEN 0 ELSE Head(a) + B * BigToNat(Tail(a))

RECURSIVE BigNorm(_)
BigNorm(a) ==
    IF a = << >> THEN << >>
    ELSE IF a[Len(a)] = 0 THEN BigNorm(SubSeq(a, 1, Len(a) - 1))
    ELSE a

RECURSIVE BigMulCarry(_, _, _)
BigMulCarry(a, n, carry) ==
    IF a = << >> THEN BigFromNat(carry)
    ELSE LET t == Head(a) * n + carry
         IN  << t % B >> \o BigMulCarry(Tail(a), n, t \div B)

BigMulNat(a, n) == BigNorm(BigMulCarry(a, n, 0))

RECURSIVE BigAddCarry(_, _, _)
BigAddCarry(a, b, carry) ==
    IF a = << >> /\ b = << >> THEN BigFromNat(carry)
    ELSE LET x == IF a = << >> THEN 0 ELSE Head(a)
             y == IF b = << >> THEN 0 ELSE Head(b)
             t == x + y + carry
         IN  << t % B >> \o BigAddCarry(IF a = << >> THEN a ELSE Tail(a),
                                        IF b = << >> THEN b ELSE Tail(b),
                                        t \div B)

BigAdd(a, b) == BigNorm(BigAddCarry(a, b, 0))

\* a - b for a >= b
RECURSIVE BigSubBorrow(_, _, _)
BigSubBorrow(a, b, borrow) ==
    IF a = << >> THEN << >>
    ELSE LET y == IF b = << >> THEN 0 ELSE Head(b)
             t == Head(a) - y - borrow
         IN  << t % B >> \o BigSubBorrow(Tail(a),
                                         IF b = << >> THEN b ELSE Tail(b),
                                         IF t < 0 THEN 1 ELSE 0)

BigSub(a, b) == BigNorm(BigSubBorrow(a, b, 0))

\* a <= b on canonical magnitudes
RECURSIVE BigLeq(_, _)
BigLeq(a, b) ==
    IF Len(a) # Len(b) THEN Len(a) < Len(b)
    ELSE IF a = << >> THEN TRUE
    ELSE IF a[Len(a)] # b[Len(b)] THEN a[Len(a)] < b[Len(b)]
    ELSE BigLeq(SubSeq(a, 1, Len(a) - 1), SubSeq(b, 1, Len(b) - 1))

Zeros(k) == [j \in 1..k |-> 0]

(* Dec: (-1)^neg * mag / 1000^exp, kept canonical so that equal numbers are
   equal records. *)
RECURSIVE DecNorm(_)
DecNorm(x) ==
    IF x.mag = << >> THEN [neg |-> FALSE, mag |-> << >>, exp |-> 0]
    ELSE IF x.exp > 0 /\ Head(x.mag) = 0
         THEN DecNorm([neg |-> x.neg, mag |-> Tail(x.mag), exp |-> x.exp - 1])
    ELSE x

DecFromNat(n) == [neg |-> FALSE, mag |-> BigFromNat(n), exp |-> 0]

\* x * n for an integer n
DecMulInt(x, n) ==
    DecNorm([neg |-> IF n < 0 THEN ~x.neg ELSE x.neg,
             mag |-> BigMulNat(x.mag, IF n < 0 THEN -n ELSE n),
             exp |-> x.exp])

\* x / 1000^k
DecShift(x, k) == DecNorm([neg |-> x.neg, mag |-> x.mag, exp |-> x.exp + k])

\* the magnitude of x with e fractional digits, e >= x.exp
MagAt(x, e) == BigNorm(Zeros(e - x.exp) \o x.mag)

\* x - y for x >= 0 and (y <= x or y < 0)
DecSub(x, y) ==
    LET e == Max(x.exp, y.exp)
        a == MagAt(x, e)
        b == MagAt(y, e)
    IN  DecNorm([neg |-> FALSE,
                 mag |-> IF y.neg THEN BigAdd(a, b) ELSE BigSub(a, b),
                 exp |-> e])

\* x <= y for x, y >= 0
DecLeq(x, y) ==
    LET e == Max(x.exp, y.exp)
    IN  BigLeq(MagAt(x, e), MagAt(y, e))

\* np.round(x) of x >= 0: nearest integer, ties to even
DecRound(x) ==
    LET n    == Len(x.mag)
        frac == [j \in 1..x.exp |-> IF j <= n THEN x.mag[j] ELSE 0]
        int  == IF n > x.exp THEN BigToNat(SubSeq(x.mag, x.exp + 1, n)) ELSE 0
        top  == IF x.exp = 0 THEN 0 ELSE frac[x.exp]
        low  == \E j \in 1..(x.exp - 1) : frac[j] # 0
    IN  IF top > B \div 2 \/ (top = B \div 2 /\ low) THEN int + 1
        ELSE IF top < B \div 2 THEN int
        ELSE IF int % 2 = 0 THEN int ELSE int + 1


-----------------------------------------------------------------------------
(* DataFrames: a frame is a function from column names to sequences of
   Periods cells.  A handle pairs the columns with whether the object is
   base_data itself (shared) or storage of its own. *)

Rows == 1..Periods

MonthAbbr == << "Jan", "Feb", "Mar", "Apr", "May", "Jun",
                "Jul", "Aug", "Sep", "Oct", "Nov", "Dec" >>

\* pd.date_range(start="2024-01-01", periods=12, freq="M").strftime("%b-%Y")
months == [i \in Rows |-> MonthAbbr[i] \o "-2024"]

DataFrameAlias(frame) == [cols |-> frame, shared |-> TRUE]

\* base_data.copy()
DataFrameCopy(frame) == [cols |-> frame, shared |-> FALSE]

\* df[name] = col
SetCol(h, name, col) ==
    [cols |-> [c \in (DOMAIN h.cols) \cup {name} |->
                  IF c = name THEN col ELSE h.cols[c]],
     shared |-> h.shared]

\* what base_data holds once the statements on handle h have run
BaseAfter(base, h) == IF h.shared THEN h.cols ELSE base

\* df[[...]].copy(): the listed columns, as a new object
SelectCols(h, names) == [c \in names |-> h.cols[c]]

EmptyFrame == [c \in {} |-> << >>]

-----------------------------------------------------------------------------
(* Base data, lines 10-30 *)

\* churned = customers[i-1] * (churn_rate[i-1] / 100), the rate in 0.0001 %
Churned(prev, rate) == DecShift(DecMulInt(prev, rate), 2)

\* lines 17-20
RECURSIVE CustomersLoop(_, _, _)
CustomersLoop(acc, rates, i) ==
    IF i > Periods THEN acc
    ELSE CustomersLoop(
            Append(acc, DecSub(acc[i - 1], Churned(acc[i - 1], rates[i - 1]))),
            rates, i + 1)

BaseCustomers(rates) == CustomersLoop(<< DecFromNat(customer_base) >>, rates, 2)

\* line 22 with line 29: np.round(arpu[i] * customers[i], 2), in cents
BaseRevenue(a, c) == DecRound(DecShift(DecMulInt(c, a * 10), 1))

\* lines 24-30
BuildBaseData(a, r, c) ==
    [ x \in {"Month", "ARPU ($)", "Churn Rate (%)", "Customers", "Revenue ($)"} |->
        CASE x = "Month"          -> months
          [] x = "ARPU ($)"       -> [i \in Rows |-> RoundHalfEvenDiv(a[i], 100)]
          [] x = "Churn Rate (%)" -> [i \in Rows |-> RoundHalfEvenDiv(r[i], 100)]
          [] x = "Customers"      -> [i \in Rows |-> DecRound(c[i])]
          [] x = "Revenue ($)"    -> [i \in Rows |-> BaseRevenue(a[i], c[i])] ]

\* a 12-cell series repeating a pattern
Cycle(pattern) == [i \in Rows |-> pattern[((i - 1) % Len(pattern)) + 1]]

\* draws of np.random.uniform(4.5, 6.5, 12), in 0.0001 $
ArpuPatterns ==
    { << 45000 >>, << 64999 >>, << 52491, 64014, 59640, 56973, 50000 >> }

\* draws of np.random.uniform(2, 5, 12), in 0.0001 %
ChurnPatterns ==
    { << 20000 >>, << 49999 >>, << 20900, 35000 >>,
      << 24185, 20950, 31234, 49950, 20050, 28716, 45000 >> }

ArpuDraws == { Cycle(p) : p \in { q \in ArpuPatterns :
                  \A j \in DOMAIN q : q[j] >= ArpuLow /\ q[j] < ArpuHigh } }

ChurnDraws == { Cycle(p) : p \in { q \in ChurnPatterns :
                  \A j \in DOMAIN q : q[j] >= ChurnLow /\ q[j] < ChurnHigh } }


-----------------------------------------------------------------------------
(* Widgets *)

SliderRange(lo, hi, step) == { lo + step * j : j \in 0..((hi - lo) \div step) }

\* the positions of the churn slider the model tries (line 48)
ChurnAdjustChoices ==
    { -200, -190, -100, 0, 150, 200 }
        \cap SliderRange(ChurnAdjustMin, ChurnAdjustMax, ChurnAdjustStep)

\* the positions of the ARPU slider the model tries (line 50)
ArpuAdjustChoices ==
    { -200, -5, 0, 5, 200 }
        \cap SliderRange(ArpuAdjustMin, ArpuAdjustMax, ArpuAdjustStep)

\* lines 101-104, the percentages in tenths of a percent
arpu_scenario_options == << "Base (No change)", "ARPU +5%", "ARPU -5%" >>

arpu_scenario_map ==
    [ o \in { "Base (No change)", "ARPU +5%", "ARPU -5%" } |->
        CASE o = "Base (No change)" -> 0
          [] o = "ARPU +5%"         -> 50
          [] o = "ARPU -5%"         -> -50 ]

\* line 105
arpu_scenario_pct(option) == arpu_scenario_map[option]

\* lines 108-112, in insertion order; churn_adj in hundredths of a percent point
scenarios ==
    << [name |-> "Low Churn (-1%)",    churn_adj |-> -100],
       [name |-> "Base (No Change)",   churn_adj |-> 0],
       [name |-> "High Churn (+1.5%)", churn_adj |-> 150] >>

-----------------------------------------------------------------------------
(* The adjusted columns *)

ClipLower(x, lower) == IF x < lower THEN lower ELSE x

\* .round(2) of a value given in 0.0001 units: hundredths
Round2(x) == RoundHalfEvenDiv(x, 100)

\* (ARPU * (1 + pct / 100)).round(2): cents c, pct in tenths of a percent
AdjArpu(c, pct) == RoundHalfEvenDiv(c * (1000 + pct), 1000)

AdjChurnTab1NoClip(c, adj) == Round2(100 * (c + adj))

AdjChurnTab1Floor01(c, adj) == Round2(ClipLower(100 * (c + adj), 100 * 10))

\* line 56: (data["Churn Rate (%)"] + churn_adjust).clip(lower=0).round(2)
AdjChurnTab1(c, adj) == Round2(ClipLower(100 * (c + adj), 100 * ClipLowerTab1))

AdjChurnTab2Sub(c, adj) == Round2(ClipLower(100 * (c - adj), 100 * ClipLowerTab2))

\* line 121: (df["Churn Rate (%)"] + churn_adj).clip(lower=0).round(2)
AdjChurnTab2(c, adj) == Round2(ClipLower(100 * (c + adj), 100 * ClipLowerTab2))

RECURSIVE CustomersAdjTab1NoLag(_, _, _)
CustomersAdjTab1NoLag(acc, adjrates, i) ==
    IF i > Periods THEN acc
    ELSE CustomersAdjTab1NoLag(
            Append(acc, DecSub(acc[i - 1],
                               Churned(acc[i - 1], 100 * adjrates[i]))),
            adjrates, i + 1)

\* lines 59-62; adjrates is the "Adj Churn Rate (%)" column, hundredths of a percent
RECURSIVE CustomersAdjTab1(_, _, _)
CustomersAdjTab1(acc, adjrates, i) ==
    IF i > Periods THEN acc
    ELSE CustomersAdjTab1(
            Append(acc, DecSub(acc[i - 1],
                               Churned(acc[i - 1], 100 * adjrates[i - 1]))),
            adjrates, i + 1)

RECURSIVE CustomersAdjTab2Grow(_, _, _)
CustomersAdjTab2Grow(acc, adjrates, i) ==
    IF i > Periods THEN acc
    ELSE CustomersAdjTab2Grow(
            Append(acc, DecSub(acc[i - 1],
                               Churned(acc[i - 1], -100 * adjrates[i - 1]))),
            adjrates, i + 1)

\* lines 123-126
RECURSIVE CustomersAdjTab2(_, _, _)
CustomersAdjTab2(acc, adjrates, i) ==
    IF i > Periods THEN acc
    ELSE CustomersAdjTab2(
            Append(acc, DecSub(acc[i - 1],
                               Churned(acc[i - 1], 100 * adjrates[i - 1]))),
            adjrates, i + 1)

\* lines 64 and 128: (Adj ARPU * Adj Customers).round(2), in cents
AdjRevenue(price, count) == RoundHalfEvenDiv(price * count, 1)

OutColumns ==
    { "Month", "Adj ARPU ($)", "Adj Churn Rate (%)", "Adj Customers",
      "Adj Revenue ($)" }

-----------------------------------------------------------------------------
(* Tab 1, lines 52-64 *)

Tab1CustomersAdjEarly(h) ==
    CustomersAdjTab1(
        << DecSub(DecFromNat(customer_base),
                  Churned(DecFromNat(customer_base),
                          100 * h.cols["Adj Churn Rate (%)"][1])) >>,
        h.cols["Adj Churn Rate (%)"], 2)

Tab1CustomersAdj(h) ==
    CustomersAdjTab1(<< DecFromNat(customer_base) >>,
                     h.cols["Adj Churn Rate (%)"], 2)

Tab1Frame(base, cadj, apct) ==
    LET d0 == DataFrameCopy(base)
        d1 == SetCol(d0, "Adj ARPU ($)",
                 [i \in Rows |-> AdjArpu(d0.cols["ARPU ($)"][i], apct)])
        d2 == SetCol(d1, "Adj Churn Rate (%)",
                 [i \in Rows |-> AdjChurnTab1(d1.cols["Churn Rate (%)"][i], cadj)])
        ca == Tab1CustomersAdj(d2)
        d3 == SetCol(d2, "Adj Customers", [i \in Rows |-> DecRound(ca[i])])
    IN  SetCol(d3, "Adj Revenue ($)",
            [i \in Rows |-> AdjRevenue(d3.cols["Adj ARPU ($)"][i],
                                       d3.cols["Adj Customers"][i])])

Tab1 ==
    /\ pc = "tab1"
    /\ LET h == Tab1Frame(base_data, churn_adjust, arpu_adjust_pct)
       IN  /\ data' = h.cols
           /\ customers_adj' = Tab1CustomersAdj(h)
           /\ base_data' = BaseAfter(base_data, h)
    /\ pc' = "tab2"
    /\ UNCHANGED << arpu, churn_rate, customers, churn_adjust, arpu_adjust_pct,
                    arpu_scenario, scenario_frames, combined >>

-----------------------------------------------------------------------------
(* Tab 2, lines 98-141 *)

Tab2CustomersAdj(h) ==
    CustomersAdjTab2(<< DecFromNat(customer_base) >>,
                     h.cols["Adj Churn Rate (%)"], 2)

\* lines 119-128 for one scenario
ScenarioFrame(base, churn_adj, spct) ==
    LET d0 == DataFrameCopy(base)
        d1 == SetCol(d0, "Adj ARPU ($)",
                 [i \in Rows |-> AdjArpu(d0.cols["ARPU ($)"][i], spct)])
        d2 == SetCol(d1, "Adj Churn Rate (%)",
                 [i \in Rows |-> AdjChurnTab2(d1.cols["Churn Rate (%)"][i], churn_adj)])
        ca == Tab2CustomersAdj(d2)
        d3 == SetCol(d2, "Adj Customers", [i \in Rows |-> DecRound(ca[i])])
    IN  SetCol(d3, "Adj Revenue ($)",
            [i \in Rows |-> AdjRevenue(d3.cols["Adj ARPU ($)"][i],
                                       d3.cols["Adj Customers"][i])])

\* lines 130-131: the output columns, every row tagged with the scenario's name
TagScenario(h, name) ==
    [c \in OutColumns \cup {"Scenario"} |->
        IF c = "Scenario" THEN [i \in Rows |-> name]
        ELSE SelectCols(h, OutColumns)[c]]

\* the scenario the loop of line 118 takes next
NextScenario(frames) == Len(frames) + 1

\* one iteration of the loop, lines 118-132
Tab2Scenario ==
    /\ pc = "tab2"
    /\ Len(scenario_frames) < Len(scenarios)
    /\ LET s == scenarios[NextScenario(scenario_frames)]
           h == ScenarioFrame(base_data, s.churn_adj,
                              arpu_scenario_pct(arpu_scenario))
       IN  /\ scenario_frames' = Append(scenario_frames, TagScenario(h, s.name))
           /\ customers_adj' = Tab2CustomersAdj(h)
           /\ base_data' = BaseAfter(base_data, h)
    /\ UNCHANGED << arpu, churn_rate, customers, churn_adjust, arpu_adjust_pct,
                    arpu_scenario, data, combined, pc >>

\* the rows of a frame, in index order
FrameRows(f) == [i \in Rows |-> [c \in DOMAIN f |-> f[c][i]]]

RECURSIVE ConcatReversed(_)
ConcatReversed(frames) ==
    IF frames = << >> THEN << >>
    ELSE ConcatReversed(Tail(frames)) \o FrameRows(Head(frames))

\* pd.concat(scenario_frames, ignore_index=True)
RECURSIVE Concat(_)
Concat(frames) ==
    IF frames = << >> THEN << >>
    ELSE FrameRows(Head(frames)) \o Concat(Tail(frames))

\* line 141, once the loop has run out of scenarios
Tab2Concat ==
    /\ pc = "tab2"
    /\ Len(scenario_frames) = Len(scenarios)
    /\ combined' = Concat(scenario_frames)
    /\ pc' = "done"
    /\ UNCHANGED << arpu, churn_rate, customers, base_data, churn_adjust,
                    arpu_adjust_pct, arpu_scenario, data, customers_adj,
                    scenario_frames >>

-----------------------------------------------------------------------------
(* A widget interaction reruns the script from the top: lines 10-30 rebuild
   the base data from the same seed, then tab1 and tab2 run again. *)

Interact ==
    /\ pc = "done"
    /\ customers' = BaseCustomers(churn_rate)
    /\ base_data' = BuildBaseData(arpu, churn_rate, customers')
    /\ data' = EmptyFrame
    /\ customers_adj' = << >>
    /\ scenario_frames' = << >>
    /\ combined' = << >>
    /\ pc' = "tab1"
    /\ UNCHANGED << arpu, churn_rate >>
    /\ churn_adjust' \in ChurnAdjustChoices
    /\ arpu_adjust_pct' \in ArpuAdjustChoices
    /\ arpu_scenario' \in { arpu_scenario_options[j] : j \in 1..3 }

\* the first run of the script: every widget at its default
InitRun(a, r) ==
    /\ arpu = a
    /\ churn_rate = r
    /\ customers = BaseCustomers(r)
    /\ base_data = BuildBaseData(a, r, BaseCustomers(r))
    /\ churn_adjust = 0
    /\ arpu_adjust_pct = 0
    /\ arpu_scenario = arpu_scenario_options[1]
    /\ data = EmptyFrame
    /\ customers_adj = << >>
    /\ scenario_frames = << >>
    /\ combined = << >>
    /\ pc = "tab1"

Init == \E a \in ArpuDraws, r \in ChurnDraws : InitRun(a, r)

Next == Tab1 \/ Tab2Scenario \/ Tab2Concat \/ Interact

Spec == Init /\ [][Next]_vars

(* The clamp of lines 56 and 121 as a function of the base rate.  With the
   simulated range [2, 5) and a slider that stops at -2.0 the sum never falls
   below 0, so the clamp is exercised on base rates drawn from [0, 5). *)
ClampPatterns == { << 0 >>, << 5000, 15000, 120, 20000 >>, << 49999 >> }

ClampDraws == { Cycle(p) : p \in { q \in ClampPatterns :
                  \A j \in DOMAIN q : q[j] >= 0 /\ q[j] < ChurnHigh } }

InitClamp == \E a \in ArpuDraws, r \in ClampDraws : InitRun(a, r)

SpecClamp == InitClamp /\ [][Next]_vars


-----------------------------------------------------------------------------
(* Properties *)

\* tab1 has run in this script run
Tab1Done == pc \in { "tab2", "done" }

\* the frame whose unrounded customers the variable customers_adj now holds
LatestFrame ==
    IF scenario_frames = << >> THEN data
    ELSE scenario_frames[Len(scenario_frames)]

\* the output frames of this run: tab1's and one per scenario evaluated
OutFrames ==
    { data } \cup { scenario_frames[k] : k \in 1..Len(scenario_frames) }

\* list starts at the starting population and decays by the rate of the
\* previous period; rates in 0.0001 %
LaggedDecay(list, rates) ==
    /\ Len(list) = Periods
    /\ list[1] = DecFromNat(customer_base)
    /\ \A i \in 2..Periods :
          list[i] = DecShift(DecMulInt(list[i - 1], 1000000 - rates[i - 1]), 2)

(* C1: in the base series, the what-if series and each comparison scenario
   population[0] is the starting population and population[i] =
   population[i-1] * (1 - rate[i-1]/100), the rate being that of the
   previous period. *)
C1_PopulationRecurrence ==
    /\ LaggedDecay(customers, churn_rate)
    /\ Tab1Done =>
          LaggedDecay(customers_adj,
              [i \in Rows |-> 100 * LatestFrame["Adj Churn Rate (%)"][i]])

\* every scenario evaluated, on rates that differ between periods 1 and 2
C1_Witness ==
    /\ pc = "done"
    /\ Len(scenario_frames) = Len(scenarios)
    /\ \A f \in OutFrames :
          f["Adj Churn Rate (%)"][1] # f["Adj Churn Rate (%)"][2]

(* C2: for every admissible adjustment, in the what-if view and in every
   scenario, the population of period i+1 is at most that of period i, both
   unrounded and as displayed. *)
C2_PopulationNonIncreasing ==
    Tab1Done =>
        /\ \A i \in 1..(Periods - 1) :
              DecLeq(customers_adj[i + 1], customers_adj[i])
        /\ \A f \in OutFrames : \A i \in 1..(Periods - 1) :
              f["Adj Customers"][i + 1] <= f["Adj Customers"][i]

\* a churn reduction in tab1, every scenario evaluated, the population falling
C2_Witness ==
    /\ pc = "done"
    /\ churn_adjust < 0
    /\ \A f \in OutFrames :
          f["Adj Customers"][Periods] < f["Adj Customers"][1]

\* population * price in cents, rounded: the price is cents * (1 + pct/100)
ExactRevenue(count, cents, pct) ==
    DecRound(DecShift(DecMulInt(count, cents * (1000 + pct)), 1))

\* the ARPU percentage the latest frame was computed with
LatestPct ==
    IF scenario_frames = << >> THEN arpu_adjust_pct
    ELSE arpu_scenario_pct(arpu_scenario)

(* C3: for every output row revenue[i] is population[i] * pricePerUnit[i]
   computed from the unrounded population and the unrounded price of the
   period, only the result being rounded. *)
C3_RevenueFromUnrounded ==
    Tab1Done =>
        \A i \in Rows :
            LatestFrame["Adj Revenue ($)"][i] =
                ExactRevenue(customers_adj[i], base_data["ARPU ($)"][i], LatestPct)

(* C4: for every period and every admissible churn adjustment, also one
   larger in magnitude than the base rate, the effective attrition rate of
   the what-if view and of every scenario is never negative. *)
C4_RateNeverNegative ==
    Tab1Done =>
        \A f \in OutFrames : \A i \in Rows : f["Adj Churn Rate (%)"][i] >= 0

\* an adjustment below minus the base rate has been clamped, in both tabs
C4_Witness ==
    /\ pc = "done"
    /\ \E i \in Rows :
          /\ base_data["Churn Rate (%)"][i] + churn_adjust < 0
          /\ data["Adj Churn Rate (%)"][i] = 0
    /\ \E i \in Rows :
          /\ base_data["Churn Rate (%)"][i] + scenarios[1].churn_adj < 0
          /\ scenario_frames[1]["Adj Churn Rate (%)"][i] = 0

(* C5 as stated: the what-if rate is never below 0.1 % (10 hundredths) and
   the scenario rate never below 0. *)
C5_WhatIfFloorTenth ==
    Tab1Done =>
        /\ \A i \in Rows : data["Adj Churn Rate (%)"][i] >= 10
        /\ \A k \in 1..Len(scenario_frames) : \A i \in Rows :
              scenario_frames[k]["Adj Churn Rate (%)"][i] >= 0

(* C5 as amended: in both views the floor is 0: the effective rate is
   max(0, base rate + adjustment), so never below 0, and in the what-if view
   it is not held at 0.1 %. *)
C5_FloorIsZero ==
    Tab1Done =>
        /\ \A i \in Rows :
              data["Adj Churn Rate (%)"][i] =
                  Max(0, base_data["Churn Rate (%)"][i] + churn_adjust)
        /\ \A k \in 1..Len(scenario_frames) : \A i \in Rows :
              scenario_frames[k]["Adj Churn Rate (%)"][i] =
                  Max(0, base_data["Churn Rate (%)"][i] + scenarios[k].churn_adj)

\* the what-if rate of some period is below 0.1 %
C5_Witness ==
    /\ pc = "done"
    /\ \E i \in Rows : data["Adj Churn Rate (%)"][i] < 10

(* C6: a projection has exactly Periods rows in ascending period order, and
   its first row holds the starting population with no attrition applied. *)
C6_RowCount ==
    /\ Len(customers) = Periods
    /\ \A c \in DOMAIN base_data : Len(base_data[c]) = Periods
    /\ base_data["Month"] = months
    /\ base_data["Customers"][1] = customer_base
    /\ Tab1Done =>
          /\ Len(customers_adj) = Periods
          /\ customers_adj[1] = DecFromNat(customer_base)
          /\ \A f \in OutFrames :
                /\ \A c \in DOMAIN f : Len(f[c]) = Periods
                /\ f["Month"] = months
                /\ f["Adj Customers"][1] = customer_base

\* tab1 has projected with a positive rate in the first period
C6_Witness ==
    /\ pc = "tab2"
    /\ scenario_frames = << >>
    /\ data["Adj Churn Rate (%)"][1] > 0
    /\ data["Adj Customers"][2] < customer_base

(* C7: combined lists the scenarios in input order: the rows of the k-th
   scenario are contiguous, in ascending period order, before those of the
   next, each tagged with the scenario's name, Periods rows per scenario. *)
C7_CombinedOrder ==
    pc = "done" =>
        /\ Len(combined) = Len(scenarios) * Periods
        /\ \A k \in 1..Len(scenarios) : \A i \in Rows :
              LET row == combined[(k - 1) * Periods + i]
              IN  /\ row["Scenario"] = scenarios[k].name
                  /\ row["Month"] = months[i]
                  /\ row = FrameRows(scenario_frames[k])[i]

\* the three scenarios concatenated, with rows that tell them apart
C7_Witness ==
    /\ pc = "done"
    /\ Len(combined) = 3 * Periods
    /\ combined[1]["Adj Customers"] = combined[Periods + 1]["Adj Customers"]
    /\ combined[2]["Adj Customers"] > combined[Periods + 2]["Adj Customers"]

(* C8: every scenario is projected from the base price times
   (1 + pct/100), pct the same for all scenarios of the run, and from the
   base attrition rate plus the scenario's own delta; month labels and
   starting population are those of the base data. *)
C8_EffectiveParameters ==
    \A k \in 1..Len(scenario_frames) :
        LET f   == scenario_frames[k]
            pct == arpu_scenario_map[arpu_scenario]
        IN  /\ \A i \in Rows :
                  LET d == 1000 * f["Adj ARPU ($)"][i]
                              - base_data["ARPU ($)"][i] * (1000 + pct)
                  IN  d <= 500 /\ -d <= 500
            /\ \A i \in Rows :
                  f["Adj Churn Rate (%)"][i] =
                      base_data["Churn Rate (%)"][i] + scenarios[k].churn_adj
            /\ f["Adj ARPU ($)"] = scenario_frames[1]["Adj ARPU ($)"]
            /\ f["Month"] = base_data["Month"]
            /\ f["Adj Customers"][1] = customer_base

\* a price scenario other than the base one, all scenarios evaluated
C8_Witness ==
    /\ Len(scenario_frames) = Len(scenarios)
    /\ arpu_scenario = "ARPU +5%"
    /\ scenario_frames[1]["Adj Churn Rate (%)"][1]
          < scenario_frames[3]["Adj Churn Rate (%)"][1]

(* C9: evaluating tab1 or a scenario leaves the shared base data (prices,
   rates, starting population series) as it was, so a scenario's rows do not
   depend on what was evaluated before it. *)
C9_BaseDataUnchanged ==
    [][ /\ base_data' = base_data
        /\ customers' = customers
        /\ arpu' = arpu
        /\ churn_rate' = churn_rate ]_vars

\* a scenario evaluated after tab1 and after another scenario
C9_Witness ==
    /\ pc = "tab2"
    /\ Len(scenario_frames) >= 2
    /\ DOMAIN data = DOMAIN base_data \cup
          { "Adj ARPU ($)", "Adj Churn Rate (%)", "Adj Customers", "Adj Revenue ($)" }

=============================================================================
